---- MODULE Spec2Model ----
(***************************************************************************)
(* Model of src/utils/format.utils.ts: formatMoney, getFormattedDateString,*)
(* getFormattedTimeString, getAdjustedDate and parseCryptoLongcode.        *)
(*                                                                         *)
(* JavaScript strings are TLA+ strings (Len, SubSeq and \o work on them).  *)
(* A JavaScript number that counts seconds is kept as a pair (d, s) that   *)
(* stands for d * 86400 + s, and a Date as a pair (day, ms) that stands    *)
(* for day * 86400000 + ms, so that the whole range of a Date (plus and    *)
(* minus 8.64e15 ms) fits the integers of the model checker.               *)
(***************************************************************************)
EXTENDS Integers, Sequences, FiniteSets, TLC

VARIABLES tz, shortSept, nowIdx, call, ret

vars == <<tz, shortSept, nowIdx, call, ret>>

(***************************************************************************)
(* Characters and the character classes the regular expressions use.       *)
(***************************************************************************)
Char(s, i) == SubSeq(s, i, i)

Digits == "0123456789"

Letters == "abcdefghijklmnopqrstuvwxyzABCDEFGHIJKLMNOPQRSTUVWXYZ"

DigitChars == {Char(Digits, i) : i \in 1..Len(Digits)}

LetterChars == {Char(Letters, i) : i \in 1..Len(Letters)}

\* \d
IsDigit(c) == c \in DigitChars

\* [0-9a-zA-Z]
IsAlnum(c) == c \in DigitChars \cup LetterChars

\* \w
IsWord(c) == c \in DigitChars \cup LetterChars \cup {"_"}

\* \s
IsSpace(c) == c \in {" ", "\t", "\n", "\r"}

\* what the dot of a regular expression refuses
IsLineTerminator(c) == c \in {"\n", "\r"}

DigitValue(c) == CHOOSE d \in 0..9 : Char(Digits, d + 1) = c

RECURSIVE ParseInt(_)
ParseInt(s) ==
    IF Len(s) = 0 THEN 0
    ELSE 10 * ParseInt(SubSeq(s, 1, Len(s) - 1)) + DigitValue(Char(s, Len(s)))

RECURSIVE Repeat(_, _)
Repeat(c, n) == IF n <= 0 THEN "" ELSE c \o Repeat(c, n - 1)

\* String.prototype.padStart with a one-character filler
PadStart(s, n, fill) == IF Len(s) >= n THEN s ELSE Repeat(fill, n - Len(s)) \o s

\* String.prototype.slice(from, to) with 0-based, non-negative bounds
Slice(s, from, to) ==
    LET t == IF to > Len(s) THEN Len(s) ELSE to
    IN  IF from >= t THEN "" ELSE SubSeq(s, from + 1, t)

\* the characters i .. i+n-1 of s exist and all satisfy the class
AllDigitsAt(s, i, n) == i + n - 1 <= Len(s) /\ \A k \in i..(i + n - 1) : IsDigit(Char(s, k))

AllWordAt(s, i, n) == i + n - 1 <= Len(s) /\ \A k \in i..(i + n - 1) : IsWord(Char(s, k))

IsCharAt(s, i, c) == i <= Len(s) /\ Char(s, i) = c

SetMin(S) == CHOOSE x \in S : \A y \in S : x <= y

SetMax(S) == CHOOSE x \in S : \A y \in S : x >= y

(***************************************************************************)
(* The Date object: a time value in milliseconds since the epoch, or NaN.  *)
(***************************************************************************)
MsPerDay == 86400000

\* a Date holds at most 100,000,000 days on either side of the epoch
MaxDateDay == 100000000

NaNDate == [valid |-> FALSE, day |-> 0, ms |-> 0]

\* TimeClip: a time value outside the range of a Date makes an Invalid Date
TimeClip(day, ms) ==
    IF day < -MaxDateDay \/ day > MaxDateDay \/ (day = MaxDateDay /\ ms > 0)
    THEN NaNDate
    ELSE [valid |-> TRUE, day |-> day, ms |-> ms]

\* new Date(n * 1000) for the number n = d * 86400 + s
DateFromSeconds(n) == TimeClip(n.d, n.s * 1000)

IsLeap(y) == (y % 4 = 0 /\ y % 100 # 0) \/ y % 400 = 0

DaysInMonth(y, m) ==
    IF m = 2 THEN (IF IsLeap(y) THEN 29 ELSE 28)
    ELSE IF m \in {4, 6, 9, 11} THEN 30 ELSE 31

\* YearFromTime, MonthFromTime and DateFromTime of a day number
CivilFromDays(z0) ==
    LET z   == z0 + 719468
        era == z \div 146097
        doe == z - era * 146097
        yoe == (doe - doe \div 1460 + doe \div 36524 - doe \div 146096) \div 365
        doy == doe - (365 * yoe + yoe \div 4 - yoe \div 100)
        mp  == (5 * doy + 2) \div 153
        d   == doy - (153 * mp + 2) \div 5 + 1
        m   == IF mp < 10 THEN mp + 3 ELSE mp - 9
    IN  [year |-> yoe + era * 400 + (IF m <= 2 THEN 1 ELSE 0), month |-> m, day |-> d]

\* MakeDay(year, month, date): month is 1..12, date may run over the month
MakeDay(y0, m, dt) ==
    LET y   == IF m <= 2 THEN y0 - 1 ELSE y0
        era == y \div 400
        yoe == y - era * 400
        doy == (153 * (IF m > 2 THEN m - 3 ELSE m + 9) + 2) \div 5
        doe == yoe * 365 + yoe \div 4 - yoe \div 100 + doy
    IN  era * 146097 + doe - 719468 + (dt - 1)

\* LocalTime(t): the time value moved by the zone's offset, in minutes
LocalTime(date, offset) ==
    LET t == date.ms + offset * 60000
    IN  [valid |-> date.valid, day |-> date.day + t \div MsPerDay, ms |-> t % MsPerDay]

\* UTC(t): the inverse of LocalTime
UTCTime(date, offset) == LocalTime(date, -offset)

(***************************************************************************)
(* The values a caller may pass as dateInput.                              *)
(***************************************************************************)
NoNumber == [d |-> 0, s |-> 0]

NumberInput(d, s) == [type |-> "number", num |-> [d |-> d, s |-> s], str |-> "", date |-> NaNDate]

StringInput(str) == [type |-> "string", num |-> NoNumber, str |-> str, date |-> NaNDate]

DateInput(date) == [type |-> "Date", num |-> NoNumber, str |-> "", date |-> date]

\* a boolean, null, undefined, a plain object: neither number, string nor Date
OtherInput(type) == [type |-> type, num |-> NoNumber, str |-> "", date |-> NaNDate]

Ok(v) == [kind |-> "ok", value |-> v]

Throw(msg) == [kind |-> "throw", value |-> msg]

(***************************************************************************)
(* Date.parse, for the two ISO forms "YYYY-MM-DD" and                      *)
(* "YYYY-MM-DDTHH:mm:ssZ" (both read as UTC); an element out of range and  *)
(* any string of another shape give NaN.  The strings handed to it are of  *)
(* these forms or are no date in any engine.                               *)
(***************************************************************************)
IsIsoDate(s) ==
    /\ Len(s) = 10
    /\ AllDigitsAt(s, 1, 4) /\ IsCharAt(s, 5, "-")
    /\ AllDigitsAt(s, 6, 2) /\ IsCharAt(s, 8, "-")
    /\ AllDigitsAt(s, 9, 2)

IsIsoDateTime(s) ==
    /\ Len(s) = 20
    /\ IsIsoDate(SubSeq(s, 1, 10)) /\ IsCharAt(s, 11, "T")
    /\ AllDigitsAt(s, 12, 2) /\ IsCharAt(s, 14, ":")
    /\ AllDigitsAt(s, 15, 2) /\ IsCharAt(s, 17, ":")
    /\ AllDigitsAt(s, 18, 2) /\ IsCharAt(s, 20, "Z")

DateParse(s) ==
    IF ~(IsIsoDate(s) \/ IsIsoDateTime(s)) THEN NaNDate
    ELSE LET y  == ParseInt(SubSeq(s, 1, 4))
             m  == ParseInt(SubSeq(s, 6, 7))
             d  == ParseInt(SubSeq(s, 9, 10))
             hh == IF IsIsoDateTime(s) THEN ParseInt(SubSeq(s, 12, 13)) ELSE 0
             mm == IF IsIsoDateTime(s) THEN ParseInt(SubSeq(s, 15, 16)) ELSE 0
             ss == IF IsIsoDateTime(s) THEN ParseInt(SubSeq(s, 18, 19)) ELSE 0
         IN  IF m \in 1..12 /\ d >= 1 /\ d <= DaysInMonth(y, m) /\ hh <= 23 /\ mm <= 59 /\ ss <= 59
             THEN TimeClip(MakeDay(y, m, d), ((hh * 60 + mm) * 60 + ss) * 1000)
             ELSE NaNDate

\* new Date(value) for a string or a Date
NewDate(dateInput) ==
    IF dateInput.type = "string" THEN DateParse(dateInput.str) ELSE dateInput.date

(***************************************************************************)
(* Date.prototype.toLocaleDateString("en-GB", options): the fields of the  *)
(* local date, in day month year order, "/" between numeric fields and a   *)
(* space around a month name.  shortSept is the abbreviation the runtime's *)
(* locale data gives September ("Sep", or "Sept" in newer data).           *)
(***************************************************************************)
MonthNames == <<"Jan", "Feb", "Mar", "Apr", "May", "Jun", "Jul", "Aug", "Sep", "Oct", "Nov", "Dec">>

MonthShort(m, sept) == IF m = 9 THEN sept ELSE MonthNames[m]

FormatDay(d, style) == IF style = "2-digit" THEN PadStart(ToString(d), 2, "0") ELSE ToString(d)

FormatMonth(m, style, sept) ==
    IF style = "short" THEN MonthShort(m, sept)
    ELSE IF style = "2-digit" THEN PadStart(ToString(m), 2, "0")
    ELSE ToString(m)

FormatYear(y, style) == IF style = "2-digit" THEN PadStart(ToString(y % 100), 2, "0") ELSE ToString(y)

ToLocaleDateString(date, o, offset, sept) ==
    IF ~date.valid THEN "Invalid Date"
    ELSE LET c   == CivilFromDays(LocalTime(date, offset).day)
             sep == IF o.month = "short" THEN " " ELSE "/"
         IN  FormatDay(c.day, o.day) \o sep \o FormatMonth(c.month, o.month, sept)
                 \o sep \o FormatYear(c.year, o.year)

\* the default value of the options parameter
DefaultOptions == [day |-> "2-digit", month |-> "2-digit", year |-> "numeric"]

(***************************************************************************)
(* The three String.prototype.replace calls of getFormattedDateString.     *)
(* Each replaces the leftmost match only.                                  *)
(***************************************************************************)
\* (\d{2}) (\w{w}) (\d{4}) matches at position i
DayMonthYearAt(s, i, w) ==
    /\ AllDigitsAt(s, i, 2) /\ IsCharAt(s, i + 2, " ")
    /\ AllWordAt(s, i + 3, w) /\ IsCharAt(s, i + 3 + w, " ")
    /\ AllDigitsAt(s, i + 4 + w, 4)

\* .replace(/(\d{2}) (\w{3}) (\d{4})/, "$2 $1 $3")
SwapDayAndMonth(s) ==
    LET M == {i \in 1..Len(s) : DayMonthYearAt(s, i, 3)}
    IN  IF M = {} THEN s
        ELSE LET i == SetMin(M)
             IN  SubSeq(s, 1, i - 1) \o SubSeq(s, i + 3, i + 5) \o " " \o SubSeq(s, i, i + 1)
                     \o " " \o SubSeq(s, i + 7, i + 10) \o SubSeq(s, i + 11, Len(s))

\* .replace(/(\d{2}) (\w{3,4}) (\d{4})/, (_, day, month, year) => `${day} ${month.slice(0, 3)} ${year}`)
CutMonthToThree(s) ==
    LET M == {i \in 1..Len(s) : DayMonthYearAt(s, i, 4) \/ DayMonthYearAt(s, i, 3)}
    IN  IF M = {} THEN s
        ELSE LET i == SetMin(M)
                 w == IF DayMonthYearAt(s, i, 4) THEN 4 ELSE 3
                 month == SubSeq(s, i + 3, i + 2 + w)
             IN  SubSeq(s, 1, i - 1) \o SubSeq(s, i, i + 1) \o " " \o Slice(month, 0, 3)
                     \o " " \o SubSeq(s, i + 4 + w, i + 7 + w) \o SubSeq(s, i + 8 + w, Len(s))

\* (\d{2})\/(\d{2})\/(\d{4}) matches at position i
SlashDateAt(s, i) ==
    /\ AllDigitsAt(s, i, 2) /\ IsCharAt(s, i + 2, "/")
    /\ AllDigitsAt(s, i + 3, 2) /\ IsCharAt(s, i + 5, "/")
    /\ AllDigitsAt(s, i + 6, 4)

\* .replace(/(\d{2})\/(\d{2})\/(\d{4})/, "$3-$2-$1")
SlashesToIso(s) ==
    LET M == {i \in 1..Len(s) : SlashDateAt(s, i)}
    IN  IF M = {} THEN s
        ELSE LET i == SetMin(M)
             IN  SubSeq(s, 1, i - 1) \o SubSeq(s, i + 6, i + 9) \o "-" \o SubSeq(s, i + 3, i + 4)
                     \o "-" \o SubSeq(s, i, i + 1) \o SubSeq(s, i + 10, Len(s))

(***************************************************************************)
(* getFormattedDateString                                                  *)
(***************************************************************************)
\* new Date(n) for the number n = d * 86400 + s read as milliseconds
DateFromMillis(n) == TimeClip(n.d \div 1000, (n.d % 1000) * 86400 + n.s)

\* the normalisation, had it read a number without the unix flag as milliseconds
DateObjOfDateInputMillis(dateInput, unix) ==
    IF dateInput.type = "number" /\ unix THEN Ok(DateFromSeconds(dateInput.num))
    ELSE IF dateInput.type = "number" THEN Ok(DateFromMillis(dateInput.num))
    ELSE IF dateInput.type = "string" \/ dateInput.type = "Date" THEN Ok(NewDate(dateInput))
    ELSE Throw("Invalid date input")

\* lines 83-89: the Date the input stands for, or the error
DateObjOfDateInput(dateInput, unix) ==
    IF dateInput.type = "number" /\ unix THEN Ok(DateFromSeconds(dateInput.num))
    ELSE IF dateInput.type = "string" \/ dateInput.type = "Date" THEN Ok(NewDate(dateInput))
    ELSE Throw("Invalid date input")

ShortMonthOptions(options) ==
    [options EXCEPT !.day = "2-digit", !.month = "short", !.year = "numeric"]

NumericOptions(options) ==
    [options EXCEPT !.year = "numeric", !.month = "2-digit", !.day = "2-digit"]

getFormattedDateString(dateInput, options, format, unix, offset, sept) ==
    LET r == DateObjOfDateInput(dateInput, unix)
        dateObj == r.value
    IN  IF r.kind = "throw" THEN r
        ELSE IF format = "MMM DD YYYY"
        THEN Ok(SwapDayAndMonth(ToLocaleDateString(dateObj, ShortMonthOptions(options), offset, sept)))
        ELSE LET dateOptions == IF format = "DD MMM YYYY" THEN ShortMonthOptions(options)
                                ELSE NumericOptions(options)
                 formattedDate == CutMonthToThree(ToLocaleDateString(dateObj, dateOptions, offset, sept))
             IN  IF format = "DD MMM YYYY" \/ format = "MMM DD YYYY"
                 THEN Ok(formattedDate)
                 ELSE Ok(SlashesToIso(formattedDate))

(***************************************************************************)
(* getFormattedTimeString                                                  *)
(***************************************************************************)
\* the normalisation, had it handed every other input to new Date instead of throwing
DateObjOfTimeInputCoercing(dateInput, unix) ==
    IF dateInput.type = "number" /\ unix THEN Ok(DateFromSeconds(dateInput.num))
    ELSE Ok(NewDate(dateInput))

\* lines 138-144: the same normalisation, written out a second time
DateObjOfTimeInput(dateInput, unix) ==
    IF dateInput.type = "number" /\ unix THEN Ok(DateFromSeconds(dateInput.num))
    ELSE IF dateInput.type = "string" \/ dateInput.type = "Date" THEN Ok(NewDate(dateInput))
    ELSE Throw("Invalid date input")

\* getHours() in place of getUTCHours(): the hour on the local clock
LocalHours(date) == IF date.valid THEN ToString(LocalTime(date, tz).ms \div 3600000) ELSE "NaN"

\* getUTCHours().toString() and its siblings: NaN for an Invalid Date
UTCHours(date) == IF date.valid THEN ToString(date.ms \div 3600000) ELSE "NaN"

UTCMinutes(date) == IF date.valid THEN ToString((date.ms \div 60000) % 60) ELSE "NaN"

UTCSeconds(date) == IF date.valid THEN ToString((date.ms \div 1000) % 60) ELSE "NaN"

getFormattedTimeString(dateInput, unix) ==
    LET r == DateObjOfTimeInput(dateInput, unix)
        dateObj == r.value
    IN  IF r.kind = "throw" THEN r
        ELSE Ok(PadStart(UTCHours(dateObj), 2, "0") \o ":" \o PadStart(UTCMinutes(dateObj), 2, "0")
                    \o ":" \o PadStart(UTCSeconds(dateObj), 2, "0") \o " GMT")

(***************************************************************************)
(* formatMoney                                                             *)
(*                                                                         *)
(* An amount is a decimal numeral: sign, integer part and fraction digits  *)
(* (no trailing zero).  An options object is a record that holds only the  *)
(* keys the caller gave.                                                   *)
(***************************************************************************)
Amount(neg, int, frac) == [neg |-> neg, int |-> int, frac |-> frac]

\* Number.prototype.toString for an amount in plain decimal notation
NumberToString(number) ==
    (IF number.neg THEN "-" ELSE "") \o ToString(number.int)
        \o (IF number.frac = "" THEN "" ELSE "." \o number.frac)

\* CurrencyConstants.precision: the decimal places registered for a currency
CurrencyPrecision == [USD |-> 2, EUR |-> 2, BTC |-> 8]

Currencies == DOMAIN CurrencyPrecision

\* Intl.NumberFormat accepts minimum/maximumFractionDigits in 0..100
MaxFractionDigits == 100

RECURSIVE SubtagsOk(_, _)
\* every subtag of a language tag is 1 to 8 letters or digits; n counts the open subtag
SubtagsOk(s, n) ==
    IF s = "" THEN n >= 1
    ELSE IF Head(s) = "-" THEN n >= 1 /\ SubtagsOk(Tail(s), 0)
    ELSE IsAlnum(Head(s)) /\ n < 8 /\ SubtagsOk(Tail(s), n + 1)

\* the structural check of a locale tag; a tag that fails it is a RangeError
IsWellFormedLocale(tag) ==
    /\ Len(tag) >= 2
    /\ Head(tag) \in LetterChars /\ Char(tag, 2) \in LetterChars
    /\ SubtagsOk(tag, 0)

\* grouping and decimal separators of the locale
LocaleSeparators(tag) ==
    IF tag = "de-DE" THEN [group |-> ".", decimal |-> ","] ELSE [group |-> ",", decimal |-> "."]

RECURSIVE Pow10(_)
Pow10(n) == IF n = 0 THEN 1 ELSE 10 * Pow10(n - 1)

\* the amount at exactly f fraction digits, ties away from zero
RoundToDigits(number, f) ==
    IF f >= Len(number.frac)
    THEN [int |-> number.int, frac |-> number.frac \o Repeat("0", f - Len(number.frac))]
    ELSE LET p == Pow10(f)
             v == number.int * p + ParseInt(SubSeq(number.frac, 1, f))
                      + (IF DigitValue(Char(number.frac, f + 1)) >= 5 THEN 1 ELSE 0)
         IN  [int |-> v \div p, frac |-> IF f = 0 THEN "" ELSE PadStart(ToString(v % p), f, "0")]

RECURSIVE GroupDigits(_, _)
\* the integer digits in groups of three
GroupDigits(s, sep) ==
    IF Len(s) <= 3 THEN s
    ELSE GroupDigits(SubSeq(s, 1, Len(s) - 3), sep) \o sep \o SubSeq(s, Len(s) - 2, Len(s))

\* new Intl.NumberFormat(locale, {minimumFractionDigits: f, maximumFractionDigits: f}).format(number)
NumberFormat(number, locale, f) ==
    IF ~IsWellFormedLocale(locale) \/ f < 0 \/ f > MaxFractionDigits
    THEN Throw("RangeError")
    ELSE LET r   == RoundToDigits(number, f)
             sep == LocaleSeparators(locale)
         IN  Ok((IF number.neg THEN "-" ELSE "") \o GroupDigits(ToString(r.int), sep.group)
                    \o (IF f = 0 THEN "" ELSE sep.decimal \o r.frac))

\* decimalPlaces || currencyPrecision
FractionDigits(options) ==
    LET currency == IF "currency" \in DOMAIN options THEN options.currency ELSE "USD"
        currencyPrecision == CurrencyPrecision[currency]
    IN  IF "decimalPlaces" \in DOMAIN options /\ options.decimalPlaces # 0
        THEN options.decimalPlaces
        ELSE currencyPrecision

\* the body of the try block
FormatMoneyTry(number, options) ==
    LET locale == IF "locale" \in DOMAIN options THEN options.locale ELSE "en-US"
    IN  NumberFormat(number, locale, FractionDigits(options))

\* formatMoney without its catch clause
formatMoneyUncaught(number, options) == FormatMoneyTry(number, options)

formatMoney(number, options) ==
    LET r == FormatMoneyTry(number, options)
    IN  IF r.kind = "throw" THEN Ok(NumberToString(number)) ELSE r

(***************************************************************************)
(* getAdjustedDate                                                         *)
(***************************************************************************)
\* a default parameter value takes the place of undefined
OrDefault(v, default) == IF v = "undefined" THEN default ELSE v

\* getAdjustedDate, had it ignored the operation and always added
getAdjustedDateAlwaysAdds(amount, typeArg, operationArg, now, offset) ==
    LET type == OrDefault(typeArg, "days")
        local == LocalTime(now, offset)
        c == CivilFromDays(local.day)
        day == IF type = "years" THEN MakeDay(c.year + amount, c.month, c.day)
               ELSE IF type = "days" THEN MakeDay(c.year, c.month, c.day + amount)
               ELSE local.day
        utc == UTCTime([valid |-> TRUE, day |-> day, ms |-> local.ms], offset)
    IN  TimeClip(utc.day, utc.ms)

getAdjustedDate(amount, typeArg, operationArg, now, offset) ==
    LET type == OrDefault(typeArg, "days")
        operation == OrDefault(operationArg, "add")
        adjustedAmount == IF operation = "add" THEN amount ELSE -amount
        local == LocalTime(now, offset)
        c == CivilFromDays(local.day)
        day == IF type = "years" THEN MakeDay(c.year + adjustedAmount, c.month, c.day)
               ELSE IF type = "days" THEN MakeDay(c.year, c.month, c.day + adjustedAmount)
               ELSE local.day
        utc == UTCTime([valid |-> TRUE, day |-> day, ms |-> local.ms], offset)
    IN  TimeClip(utc.day, utc.ms)

(***************************************************************************)
(* parseCryptoLongcode                                                     *)
(***************************************************************************)
Undefined == [defined |-> FALSE, v |-> ""]

Some(v) == [defined |-> TRUE, v |-> v]

RECURSIVE SplitCommaSpace(_)
\* longcode.split(/,\s/)
SplitCommaSpace(s) ==
    LET M == {i \in 1..(Len(s) - 1) : Char(s, i) = "," /\ IsSpace(Char(s, i + 1))}
    IN  IF M = {} THEN <<s>>
        ELSE <<SubSeq(s, 1, SetMin(M) - 1)>> \o SplitCommaSpace(SubSeq(s, SetMin(M) + 2, Len(s)))

\* the quantifier bounds of .{25,28} and .{25,34}
DotMin == 25

AddressDotMax == 28

BlockchainDotMax == 34

RECURSIVE AlnumRun(_, _)
\* how many characters from position i on are letters or digits
AlnumRun(s, i) == IF i > Len(s) \/ ~IsAlnum(Char(s, i)) THEN 0 ELSE 1 + AlnumRun(s, i + 1)

RECURSIVE LineRun(_, _)
\* how many characters from position i on the dot accepts
LineRun(s, i) == IF i > Len(s) \/ IsLineTerminator(Char(s, i)) THEN 0 ELSE 1 + LineRun(s, i + 1)

\* the pattern, had it been :\s([0-9a-zA-Z]{lo+1,hi+1}): letters and digits only
HashMatchAtAlnumOnly(s, i, lo) ==
    /\ IsCharAt(s, i, ":") /\ i + 1 <= Len(s) /\ IsSpace(Char(s, i + 1))
    /\ AlnumRun(s, i + 2) >= 1 + lo

\* :\s([0-9a-zA-Z]+.{lo,hi}) can match at i: some split into k >= 1 for the + and n >= lo for the dot
HashMatchAt(s, i, lo) ==
    /\ IsCharAt(s, i, ":") /\ i + 1 <= Len(s) /\ IsSpace(Char(s, i + 1))
    /\ AlnumRun(s, i + 2) >= 1
    /\ LineRun(s, i + 2) >= 1 + lo

\* /:\s([0-9a-zA-Z]+.{lo,hi})/gm.exec(s)?.[1]: the leftmost start; the + takes the most
\* characters that leave lo for the dot, and the dot then takes the most it can
HashMatch(s, lo, hi) ==
    LET M == {i \in 1..Len(s) : HashMatchAt(s, i, lo)}
    IN  IF M = {} THEN Undefined
        ELSE LET i == SetMin(M)
                 run == AlnumRun(s, i + 2)
                 line == LineRun(s, i + 2)
                 k == SetMax({x \in 1..run : x + lo <= line})
                 n == SetMax({x \in lo..hi : k + x <= line})
             IN  Some(SubSeq(s, i + 2, i + 1 + k + n))

\* splitLongcode[j] handed to exec: a missing element is undefined, which exec reads as "undefined"
TokenOrUndefined(split, j) == IF j <= Len(split) THEN split[j] ELSE "undefined"

parseCryptoLongcode(longcode) ==
    LET splitLongcode == SplitCommaSpace(longcode)
    IN  [addressHash |-> HashMatch(TokenOrUndefined(splitLongcode, 1), DotMin, AddressDotMax),
         blockchainHash |-> HashMatch(TokenOrUndefined(splitLongcode, 2), DotMin, BlockchainDotMax),
         splitLongcode |-> splitLongcode]

(***************************************************************************)
(* The inputs the calls are made with.                                     *)
(***************************************************************************)
\* largest amount of getAdjustedDate, apart from the long shifts
MaxAmount == 4

\* longest text after the run of letters and digits of a longcode token
MaxTail == 30

\* the local time zone of the process: minutes east of Greenwich
TZOffsets == {-300, 0, 330}

\* what the locale data of the runtime calls September
SeptNames == {"Sep", "Sept"}

\* the moments at which the clock is read
NowSamples ==
    << DateParse("2023-05-15T14:30:00Z"), DateParse("2023-12-30T21:15:00Z"),
       DateParse("2024-02-29T10:00:00Z"), DateParse("2024-12-31T23:59:59Z") >>

DateStrings ==
    { "2023-05-15", "2023-09-05", "2024-02-29", "2023-12-31", "2023-05-15T14:30:00Z",
      "2023-09-30T23:59:59Z", "abc", "", "2023-13-01" }

NumberDays == {-1, 0, MakeDay(2023, 5, 15), MakeDay(2023, 9, 30), MaxDateDay}

NumberSeconds == {0, 1, 52200, 86399}

DateInputs ==
    {StringInput(s) : s \in DateStrings}
        \cup {DateInput(DateParse(s)) : s \in {"2023-05-15", "2023-09-30T23:59:59Z", "abc"}}
        \cup {DateInput(TimeClip(MakeDay(999, 9, 9), 0))}
        \cup {NumberInput(d, s) : d \in NumberDays, s \in NumberSeconds}
        \cup {OtherInput(x) : x \in {"boolean", "null", "undefined", "object"}}

\* the options argument: left out, {}, and hints for all three fields
DateOptions ==
    { DefaultOptions,
      [day |-> "absent", month |-> "absent", year |-> "absent"],
      [day |-> "numeric", month |-> "long", year |-> "2-digit"] }

Formats == {"YYYY-MM-DD", "DD MMM YYYY", "MMM DD YYYY", "DD/MM/YYYY"}

Amounts ==
    { Amount(FALSE, 1234, "56"), Amount(TRUE, 1234, "56"), Amount(FALSE, 0, ""),
      Amount(FALSE, 999, "999"), Amount(FALSE, 0, "5"), Amount(FALSE, 1234567, "125") }

\* every options object over the keys locale, currency and decimalPlaces; <<>> is {} or no argument
MoneyOptions ==
    { l @@ c @@ d :
        l \in {<<>>} \cup {[locale |-> x] : x \in {"en-US", "de-DE", "en_US"}},
        c \in {<<>>} \cup {[currency |-> x] : x \in Currencies},
        d \in {<<>>} \cup {[decimalPlaces |-> x] : x \in {-1, 0, 1, 2, 8, MaxFractionDigits + 1}} }

AdjustAmounts == (-MaxAmount..MaxAmount) \cup {31, 366}

AdjustTypes == {"undefined", "days", "years", "months"}

AdjustOperations == {"undefined", "add", "subtract"}

AlnumSource == "4a5e1e4baab89f3a32518a88c31bc87f618f76673e2cc77ab2127b7afdeda33b"

TailSource == " (pending confirmation on the network)"

\* a token: label, colon, space, la letters and digits, lt characters of other text
Token(label, la, lt) ==
    label \o ": " \o SubSeq(AlnumSource, 1, la) \o SubSeq(TailSource, 1, lt)

FirstTokens ==
    { Token("address", la, lt) :
        la \in {0, 1, DotMin, DotMin + 1, AddressDotMax + 1, AddressDotMax + 2, Len(AlnumSource)},
        lt \in {0, 1, DotMin - 1, DotMin, MaxTail} }
        \cup {Token("note: to address", DotMin + 1, 0), Token("address:", DotMin + 1, 0)}

SecondTokens ==
    { Token("transaction", la, lt) :
        la \in {0, DotMin + 1, BlockchainDotMax + 1, BlockchainDotMax + 2, Len(AlnumSource)},
        lt \in {0, DotMin} }

Longcodes == FirstTokens \cup {a \o ", " \o b : a \in FirstTokens, b \in SecondTokens}

(***************************************************************************)
(* The state machine.  The functions keep no state, so a run is: the       *)
(* process starts in some time zone with some locale data, its clock       *)
(* advances, and one call is made and returns.                             *)
(***************************************************************************)
NoCall == [fn |-> "none"]

NoReturn == [kind |-> "none", value |-> ""]

Now == NowSamples[nowIdx]

Init ==
    /\ tz \in TZOffsets
    /\ shortSept \in SeptNames
    /\ nowIdx = 1
    /\ call = NoCall
    /\ ret = NoReturn

Tick ==
    /\ call = NoCall
    /\ nowIdx < Len(NowSamples)
    /\ nowIdx' = nowIdx + 1
    /\ UNCHANGED <<tz, shortSept, call, ret>>

FormatMoney ==
    /\ call = NoCall
    /\ \E number \in Amounts, options \in MoneyOptions :
        /\ call' = [fn |-> "formatMoney", number |-> number, options |-> options]
        /\ ret' = formatMoney(number, options)
    /\ UNCHANGED <<tz, shortSept, nowIdx>>

GetFormattedDateString ==
    /\ call = NoCall
    /\ \E dateInput \in DateInputs, options \in DateOptions, format \in Formats, unix \in BOOLEAN :
        /\ call' = [fn |-> "getFormattedDateString", dateInput |-> dateInput,
                    options |-> options, format |-> format, unix |-> unix]
        /\ ret' = getFormattedDateString(dateInput, options, format, unix, tz, shortSept)
    /\ UNCHANGED <<tz, shortSept, nowIdx>>

GetFormattedTimeString ==
    /\ call = NoCall
    /\ \E dateInput \in DateInputs, unix \in BOOLEAN :
        /\ call' = [fn |-> "getFormattedTimeString", dateInput |-> dateInput, unix |-> unix]
        /\ ret' = getFormattedTimeString(dateInput, unix)
    /\ UNCHANGED <<tz, shortSept, nowIdx>>

GetAdjustedDate ==
    /\ call = NoCall
    /\ \E amount \in AdjustAmounts, type \in AdjustTypes, operation \in AdjustOperations :
        /\ call' = [fn |-> "getAdjustedDate", amount |-> amount, type |-> type,
                    operation |-> operation, now |-> Now]
        /\ ret' = Ok(getAdjustedDate(amount, type, operation, Now, tz))
    /\ UNCHANGED <<tz, shortSept, nowIdx>>

ParseCryptoLongcode ==
    /\ call = NoCall
    /\ \E longcode \in Longcodes :
        /\ call' = [fn |-> "parseCryptoLongcode", longcode |-> longcode]
        /\ ret' = Ok(parseCryptoLongcode(longcode))
    /\ UNCHANGED <<tz, shortSept, nowIdx>>

Next ==
    \/ Tick
    \/ FormatMoney
    \/ GetFormattedDateString
    \/ GetFormattedTimeString
    \/ GetAdjustedDate
    \/ ParseCryptoLongcode

Spec == Init /\ [][Next]_vars

(***************************************************************************)
(* What the claims speak of.                                               *)
(***************************************************************************)
IsDateCall == call.fn = "getFormattedDateString"

IsTimeCall == call.fn = "getFormattedTimeString"

\* the input is a string, a Date, or a number with the unix flag set
SupportedInput == call.dateInput.type \in {"string", "Date"} \/ (call.dateInput.type = "number" /\ call.unix)

\* the moment the input of the call stands for (for a supported input)
InputMoment ==
    IF call.dateInput.type = "number" THEN TimeClip(call.dateInput.num.d, call.dateInput.num.s * 1000)
    ELSE IF call.dateInput.type = "string" THEN DateParse(call.dateInput.str)
    ELSE call.dateInput.date

\* the calendar date of a moment on the local clock
LocalCivil(date) == CivilFromDays(LocalTime(date, tz).day)

TwoDigits(n) == (IF n < 10 THEN "0" ELSE "") \o ToString(n)

ThreeLetterMonths ==
    [m \in 1..12 |-> SubSeq("JanFebMarAprMayJunJulAugSepOctNovDec", 3 * m - 2, 3 * m)]

\* C1: for every valid date and both tags "DD MMM YYYY" and "MMM DD YYYY" the result is
\* the two-digit day, the month cut to three letters and the four-digit year, separated
\* by spaces, in the order of the tag, for every month ("Sept" included).
C1_ShortMonthLayouts ==
    (/\ IsDateCall /\ call.format \in {"DD MMM YYYY", "MMM DD YYYY"}
     /\ SupportedInput /\ InputMoment.valid
     /\ LocalCivil(InputMoment).year \in 1000..9999)
    => LET c   == LocalCivil(InputMoment)
           day == TwoDigits(c.day)
           mon == ThreeLetterMonths[c.month]
       IN  ret = Ok(IF call.format = "DD MMM YYYY"
                    THEN day \o " " \o mon \o " " \o ToString(c.year)
                    ELSE mon \o " " \o day \o " " \o ToString(c.year))

\* C2: with the default tag (or any tag other than the two month-name tags) a date-only
\* input string "YYYY-MM-DD" of a valid date is returned unchanged, whatever the hints.
C2_DateOnlyStringUnchanged ==
    (/\ IsDateCall /\ call.format \notin {"DD MMM YYYY", "MMM DD YYYY"}
     /\ call.dateInput.type = "string" /\ IsIsoDate(call.dateInput.str)
     /\ InputMoment.valid)
    => ret = Ok(call.dateInput.str)

\* C3: both formatters raise "Invalid date input" exactly for the inputs that are neither
\* a string, nor a Date, nor a number with the unix flag set; such an input yields no string.
C3_InvalidTypeRejected ==
    (IsDateCall \/ IsTimeCall)
    => /\ (ret = Throw("Invalid date input")) <=> ~SupportedInput
       /\ ~SupportedInput => ret.kind # "ok"

C3_Witness ==
    /\ IsDateCall \/ IsTimeCall
    /\ call.dateInput.type = "boolean"
    /\ ret = Throw("Invalid date input")

\* the number of characters after the decimal separator of a formatted amount
FractionDigitCount(s, decimal) ==
    LET P == {i \in 1..Len(s) : Char(s, i) = decimal}
    IN  IF P = {} THEN 0 ELSE Len(s) - SetMax(P)

GivenLocale == IF "locale" \in DOMAIN call.options THEN call.options.locale ELSE "en-US"

\* the digits the claim resolves: decimalPlaces when passed, else the currency's precision
ClaimedFractionDigits ==
    IF "decimalPlaces" \in DOMAIN call.options THEN call.options.decimalPlaces
    ELSE CurrencyPrecision[IF "currency" \in DOMAIN call.options THEN call.options.currency ELSE "USD"]

\* C4: an explicitly passed decimalPlaces always wins, 0 included; without it the
\* precision of the currency (USD by default) is used; the result has exactly that
\* number of fraction digits.
C4_DecimalPlacesWins ==
    (/\ call.fn = "formatMoney"
     /\ IsWellFormedLocale(GivenLocale)
     /\ ClaimedFractionDigits \in 0..MaxFractionDigits)
    => /\ ret.kind = "ok"
       /\ FractionDigitCount(ret.value, LocaleSeparators(GivenLocale).decimal) = ClaimedFractionDigits

\* the locale-aware formatting step of the call fails
FormattingFails ==
    \/ ~IsWellFormedLocale(GivenLocale)
    \/ FractionDigits(call.options) \notin 0..MaxFractionDigits

\* C5: formatMoney never throws, and whenever the locale-aware formatting step fails
\* the result is the plain amount as number.toString() renders it.
C5_NeverThrows ==
    call.fn = "formatMoney"
    => /\ ret.kind = "ok"
       /\ FormattingFails => ret.value = NumberToString(call.number)

C5_Witness ==
    /\ call.fn = "formatMoney"
    /\ GivenLocale = "en_US"
    /\ call.number = Amount(FALSE, 1234, "56")
    /\ ret = Ok("1234.56")

\* HH:mm:ss GMT of the second s of a day
ClockOfSecond(s) ==
    TwoDigits((s \div 3600) % 24) \o ":" \o TwoDigits((s \div 60) % 60) \o ":" \o TwoDigits(s % 60) \o " GMT"

IsUnixTimeCall == IsTimeCall /\ call.dateInput.type = "number" /\ call.unix

\* n = d * 86400 + s is at most 8,640,000,000,000
InDateRange(n) == n.d < MaxDateDay \/ (n.d = MaxDateDay /\ n.s = 0)

RECURSIVE JoinTokens(_)
\* the tokens with ", " put back between them
JoinTokens(tokens) ==
    IF Len(tokens) = 1 THEN tokens[1] ELSE tokens[1] \o ", " \o JoinTokens(Tail(tokens))

HasCommaSpace(s) == \E i \in 1..(Len(s) - 1) : Char(s, i) = "," /\ IsSpace(Char(s, i + 1))

AllAlnum(s) == \A i \in 1..Len(s) : IsAlnum(Char(s, i))

\* s holds colon, space and then at least n letters or digits
HasAlnumRunAfterColon(s, n) ==
    \E i \in 1..Len(s) :
        /\ i + 1 + n <= Len(s) /\ Char(s, i) = ":" /\ Char(s, i + 1) = " "
        /\ \A j \in (i + 2)..(i + 1 + n) : IsAlnum(Char(s, j))

\* colon, whitespace, a letter or digit and lo more characters of the same line start at i
HashStartsAt(s, i, lo) ==
    /\ i + 2 + lo <= Len(s)
    /\ Char(s, i) = ":" /\ IsSpace(Char(s, i + 1)) /\ IsAlnum(Char(s, i + 2))
    /\ \A j \in (i + 3)..(i + 2 + lo) : ~IsLineTerminator(Char(s, j))

\* the field h is what the amended claim says of the token s: set exactly when a start
\* exists; then the text from the first start's letter or digit to the end of the line,
\* cut hi characters after the run of letters and digits it begins with
HashFieldAsAmended(h, s, lo, hi) ==
    LET starts == {i \in 1..Len(s) : HashStartsAt(s, i, lo)}
    IN  /\ h.defined <=> starts # {}
        /\ h.defined =>
            LET i == SetMin(starts)
                last == i + 1 + Len(h.v)
            IN  /\ Len(h.v) >= lo + 1
                /\ last <= Len(s) /\ h.v = SubSeq(s, i + 2, last)
                /\ IsAlnum(Head(h.v))
                /\ \A j \in 1..Len(h.v) : ~IsLineTerminator(Char(h.v, j))
                /\ Len(h.v) <= AlnumRun(h.v, 1) + hi
                /\ \/ last = Len(s)
                   \/ IsLineTerminator(Char(s, last + 1))
                   \/ Len(h.v) = AlnumRun(h.v, 1) + hi

\* C7 as stated: addressHash is set exactly when token[0] holds colon-space and 26 to 29
\* letters or digits, and is then 26 to 29 characters, all of them letters or digits;
\* blockchainHash likewise from token[1], with 26 to 35.
C7_HashesAlphanumericAndBounded ==
    call.fn = "parseCryptoLongcode"
    => LET r  == ret.value
           sp == r.splitLongcode
       IN  /\ r.addressHash.defined <=> HasAlnumRunAfterColon(sp[1], DotMin + 1)
           /\ r.addressHash.defined =>
                Len(r.addressHash.v) \in (DotMin + 1)..(AddressDotMax + 1) /\ AllAlnum(r.addressHash.v)
           /\ r.blockchainHash.defined <=> (Len(sp) >= 2 /\ HasAlnumRunAfterColon(sp[2], DotMin + 1))
           /\ r.blockchainHash.defined =>
                Len(r.blockchainHash.v) \in (DotMin + 1)..(BlockchainDotMax + 1) /\ AllAlnum(r.blockchainHash.v)

\* C7 amended: parseCryptoLongcode returns without error; splitLongcode is the input
\* split on comma-whitespace; addressHash is set exactly when token[0] holds a colon, a
\* whitespace character, a letter or digit and at least 25 more characters of the same
\* line, and is then the text from that letter or digit to the end of the line, cut 28
\* characters after its leading run of letters and digits (so at least 26 characters,
\* of any kind after the first); blockchainHash likewise from token[1], when it exists,
\* with 34 in place of 28; each field is decided by its own token alone.
C7_HashesAsMatched ==
    call.fn = "parseCryptoLongcode"
    => LET r  == ret.value
           sp == r.splitLongcode
       IN  /\ ret.kind = "ok"
           /\ Len(sp) >= 1 /\ JoinTokens(sp) = call.longcode
           /\ \A j \in 1..Len(sp) : ~HasCommaSpace(sp[j])
           /\ HashFieldAsAmended(r.addressHash, sp[1], DotMin, AddressDotMax)
           /\ IF Len(sp) >= 2
              THEN HashFieldAsAmended(r.blockchainHash, sp[2], DotMin, BlockchainDotMax)
              ELSE ~r.blockchainHash.defined

C7_Witness ==
    /\ call.fn = "parseCryptoLongcode"
    /\ ret.value.addressHash.defined
    /\ ~AllAlnum(ret.value.addressHash.v)
    /\ Len(ret.value.addressHash.v) > AddressDotMax + 1
    /\ Len(ret.value.splitLongcode) = 2
    /\ ~ret.value.blockchainHash.defined

\* the signed amount of the call
SignedAmount == IF call.operation = "subtract" THEN -call.amount ELSE call.amount

\* C8: getAdjustedDate returns the current moment shifted by +amount for "add" (the
\* default) and -amount for "subtract": in calendar days for "days" (the default),
\* carrying across months and years; in calendar years for "years" (29 February moves
\* to 1 March in a common year); unshifted, and without error, for any other unit.
C8_AdjustedDate ==
    call.fn = "getAdjustedDate"
    => LET r    == ret.value
           now  == call.now
           unit == IF call.type = "undefined" THEN "days" ELSE call.type
           was  == LocalCivil(now)
           is   == LocalCivil(r)
       IN  /\ ret.kind = "ok" /\ r.valid
           /\ LocalTime(r, tz).ms = LocalTime(now, tz).ms
           /\ unit = "days" => r.day = now.day + SignedAmount /\ r.ms = now.ms
           /\ unit = "years" =>
                is = IF was.month = 2 /\ was.day = 29 /\ ~IsLeap(was.year + SignedAmount)
                     THEN [year |-> was.year + SignedAmount, month |-> 3, day |-> 1]
                     ELSE [year |-> was.year + SignedAmount, month |-> was.month, day |-> was.day]
           /\ unit \notin {"days", "years"} => r = now

C8_Witness ==
    /\ call.fn = "getAdjustedDate"
    /\ call.type = "undefined" /\ call.operation = "subtract" /\ call.amount = 1
    /\ LocalCivil(call.now) = [year |-> 2025, month |-> 1, day |-> 1]
    /\ LocalCivil(ret.value) = [year |-> 2024, month |-> 12, day |-> 31]

\* the numbers n of the inputs whose thousandfold still is a number of the model
SmallNumbers == {[d |-> d, s |-> s] : d \in {x \in NumberDays : x >= 0 /\ x < 1000}, s \in NumberSeconds}

\* n * 1000 for n = d * 86400 + s
TimesThousand(n) == [d |-> n.d * 1000 + (n.s * 1000) \div 86400, s |-> (n.s * 1000) % 86400]

IsNumberCall == (IsDateCall \/ IsTimeCall) /\ call.dateInput.type = "number"

\* the call, made with another input and flag
SameCallWith(dateInput, unix) ==
    IF IsDateCall
    THEN getFormattedDateString(dateInput, call.options, call.format, unix, tz, shortSept)
    ELSE getFormattedTimeString(dateInput, unix)

\* C9 as stated: a number passed with the unix flag false is read as a millisecond
\* timestamp and formatted, so that f(n * 1000, false) is the string f(n, true).
C9_MillisecondsWithoutFlag ==
    (IsNumberCall /\ ~call.unix)
    => /\ ret.kind = "ok"
       /\ \A n \in SmallNumbers :
            call.dateInput.num = TimesThousand(n) => ret = SameCallWith(NumberInput(n.d, n.s), TRUE)

\* C9 amended: a number passed with the unix flag true is read as whole seconds since
\* the epoch (the result is that of the Date n * 1000 ms); a number passed with the
\* flag false is not formatted: both functions raise "Invalid date input".
C9_FlagGatesNumbers ==
    IsNumberCall
    => IF call.unix
       THEN ret.kind = "ok" /\ ret = SameCallWith(DateInput(InputMoment), FALSE)
       ELSE ret = Throw("Invalid date input")

C9_Witness ==
    /\ IsDateCall
    /\ call.dateInput.type = "number" /\ call.dateInput.num = [d |-> 0, s |-> 0]
    /\ ~call.unix
    /\ ret = Throw("Invalid date input")

\* two digits, colon, two digits, colon, two digits, " GMT"
IsTimeString(s) ==
    /\ Len(s) = 12
    /\ AllDigitsAt(s, 1, 2) /\ Char(s, 3) = ":"
    /\ AllDigitsAt(s, 4, 2) /\ Char(s, 6) = ":"
    /\ AllDigitsAt(s, 7, 2) /\ SubSeq(s, 9, 12) = " GMT"

\* C10: for a string that does not parse to a valid date both formatters raise an error
\* and return no string; every string getFormattedTimeString returns has the form
\* two digits, colon, two digits, colon, two digits, " GMT".
C10_InvalidDateIsAnError ==
    /\ ((IsDateCall \/ IsTimeCall) /\ call.dateInput.type = "string" /\ ~DateParse(call.dateInput.str).valid)
        => ret.kind = "throw"
    /\ (IsTimeCall /\ ret.kind = "ok") => IsTimeString(ret.value)

====
